---- MODULE Spec2Model ----
(***************************************************************************)
(* Model of the cost-center synchronisation action (src/src/main.js).      *)
(*                                                                         *)
(* run() reads its inputs, looks the cost center up by name, fetches the   *)
(* members of every organization linked to it, computes the users to add   *)
(* and to remove, issues one request per user and reports a summary.       *)
(* Every awaited remote call is one step of the model; the response of     *)
(* the remote side is chosen nondeterministically in that step.            *)
(***************************************************************************)
EXTENDS Integers, Sequences, FiniteSets, TLC

(***************************************************************************)
(* Bounds of the model.                                                    *)
(***************************************************************************)
\* largest number of resource entries on the cost-center record
MaxRes == 2
\* largest number of cost centers in the listing
MaxCenters == 2
\* largest number of consecutive runs of the action
MaxRuns == 2

(***************************************************************************)
(* Small input sets.                                                       *)
(***************************************************************************)
\* logins recorded on cost-center records; "c" belongs to no organization
Users == {"a", "b", "c"}
\* logins the membership listings return
Members == {"a", "b"}
Orgs == {"o1", "o2"}
CenterNames == {"cc", "CC", "ops"}
ErrMsgs == {"E1", "E2"}
OrgInputs == {"", "my-org"}
TeamInputs == {"", "dev"}
NameInputs == {"", "cc"}
EnterpriseInputs == {"", "ent"}
TokenInputs == {"", "tok"}

\* the entries a cost-center record can carry
ResourcePool ==
    [type : {"Org"}, name : Orgs] \cup [type : {"User"}, name : Users]
        \cup [type : {"Repo"}, name : {"r"}]

SeqsUpTo(S, n) == UNION {[1..k -> S] : k \in 0..n}

Range(s) == {s[i] : i \in 1..Len(s)}

NoDup(s) == \A i, j \in 1..Len(s) : i # j => s[i] # s[j]

\* a membership listing returns each login once
MemberLists == {s \in SeqsUpTo(Members, Cardinality(Members)) : NoDup(s)}

\* the resources a record can list; nothing keeps the listing from naming
\* a resource twice
ResourceSeqs == SeqsUpTo(ResourcePool, MaxRes)

NoCenter == [id |-> "", name |-> "", resources |-> <<>>]

(***************************************************************************)
(* The mock cost-center server of the test infrastructure.                 *)
(***************************************************************************)
\* largest number of requests the mock server receives
MaxRequests == 3

\* MOCK_DELAY_MS when the environment does not set it, and after a reset
DefaultDelay == 100

\* the cost centers the server starts with and a reset restores
InitialCostCenters ==
    [n \in {"engineering-cost-center", "org-wide-cost-center",
            "design-cost-center"} |->
        IF n = "engineering-cost-center"
        THEN <<[login |-> "user2", id |-> 2], [login |-> "user3", id |-> 3]>>
        ELSE IF n = "org-wide-cost-center"
        THEN <<[login |-> "user1", id |-> 1], [login |-> "user4", id |-> 4]>>
        ELSE <<[login |-> "designer1", id |-> 101],
               [login |-> "designer2", id |-> 102]>>]

\* the values POST /config/response-mode accepts
ResponseModes == {"success", "error", "timeout", "partial"}
\* the modes a request body can carry
ModeInputs == ResponseModes \cup {"bogus"}
\* the delays a request body can carry; -1 stands for an invalid value
DelayInputs == {0, -1}
\* the cost-center names and user names requests carry
NameParams == {"engineering-cost-center", "new-cost-center"}
UsernameParams == {"user2"}
\* Math.floor(Math.random() * 10000) + 1000, its least and greatest value
NewIds == {1000, 10999}

\* what is kept of the first run when the action is run again
NoRun == [responses |-> <<>>, added |-> <<>>, removed |-> <<>>]

(***************************************************************************)
(* Pure helpers, computed as the JavaScript computes them.                 *)
(***************************************************************************)
\* Array.prototype.includes
Includes(arr, x) == \E i \in 1..Len(arr) : arr[i] = x

\* Array.prototype.join
RECURSIVE Join(_, _)
Join(arr, sep) ==
    IF Len(arr) = 0 THEN ""
    ELSE IF Len(arr) = 1 THEN arr[1]
    ELSE arr[1] \o sep \o Join(Tail(arr), sep)

\* Array.prototype.map(x => x.name)
Names(arr) == [i \in 1..Len(arr) |-> arr[i].name]

\* an add that puts a new login in front of the ones already held
SetAddFront(set, x) == IF Includes(set, x) THEN set ELSE <<x>> \o set

\* an add that appends the login even when it is already held
SetAddAlways(set, x) == Append(set, x)

\* Set.prototype.add on an insertion-ordered Set
SetAdd(set, x) == IF Includes(set, x) THEN set ELSE Append(set, x)

\* a fetch that replaces the collected members instead of adding to them
AddAllOverwrite(set, members) == members

\* for (const member of members) all_users.add(member.login)
RECURSIVE AddAll(_, _)
AddAll(set, members) ==
    IF members = <<>> THEN set
    ELSE AddAll(SetAdd(set, Head(members)), Tail(members))

\* s with its upper-case letters folded to lower case
LowerCase(s) ==
    LET ch(c) == CASE c = "C" -> "c" [] c = "O" -> "o" [] c = "P" -> "p"
                   [] c = "S" -> "s" [] OTHER -> c
        acc[i \in 0..Len(s)] ==
            IF i = 0 THEN "" ELSE acc[i - 1] \o ch(SubSeq(s, i, i))
    IN  acc[Len(s)]

\* a find that compares the names without regard to case
FindIgnoreCase(centers, cost_center_name) ==
    LET hits == {i \in 1..Len(centers) :
                    LowerCase(centers[i].name) = LowerCase(cost_center_name)}
    IN  IF hits = {} THEN NoCenter
        ELSE centers[CHOOSE i \in hits : \A j \in hits : i <= j]

\* costCenters.find(center => center.name === cost_center_name)
Find(centers, cost_center_name) ==
    LET hits == {i \in 1..Len(centers) : centers[i].name = cost_center_name}
    IN  IF hits = {} THEN NoCenter
        ELSE centers[CHOOSE i \in hits : \A j \in hits : i <= j]

\* a filter that keeps every resource whatever its type
OfTypeAll(resources, t) == resources

\* resources.filter(resource => resource.type === t)
OfType(resources, t) == SelectSeq(resources, LAMBDA r : r.type = t)

\* the remote store applying an add request: the user becomes a direct member
StoreAdd(resources, user) ==
    IF \E i \in 1..Len(resources) :
          resources[i].type = "User" /\ resources[i].name = user
    THEN resources
    ELSE Append(resources, [type |-> "User", name |-> user])

\* the remote store applying a remove request: the user is no direct member
StoreRemove(resources, user) ==
    SelectSeq(resources, LAMBDA r : ~(r.type = "User" /\ r.name = user))

\* the remote store applying one add request per user of a list
RECURSIVE StoreAddAll(_, _)
StoreAddAll(resources, users) ==
    IF users = <<>> THEN resources
    ELSE StoreAddAll(StoreAdd(resources, Head(users)), Tail(users))

\* the add filter left out
UsersToAddUnfiltered(github_users, cost_center_users) == github_users

\* github_users.filter(user => !cost_center_users.includes(user))
UsersToAdd(github_users, cost_center_users) ==
    SelectSeq(github_users, LAMBDA user : ~Includes(cost_center_users, user))

\* the remove filter written as a copy of the add filter
\* a reconciliation that never removes a member
UsersToRemoveNone(github_users, cost_center_users) == <<>>

UsersToRemoveCopied(github_users, cost_center_users) ==
    SelectSeq(github_users, LAMBDA user : ~Includes(cost_center_users, user))

\* cost_center_users.filter(user => !github_users.includes(user))
UsersToRemove(github_users, cost_center_users) ==
    SelectSeq(cost_center_users, LAMBDA user : ~Includes(github_users, user))

\* a summary that prints a placeholder for an empty list
ResultStringPlaceholder(users_to_add, users_to_remove) ==
    "Added users: "
        \o (IF users_to_add = <<>> THEN "none" ELSE Join(users_to_add, ", "))
        \o ", Removed users: "
        \o (IF users_to_remove = <<>> THEN "none" ELSE Join(users_to_remove, ", "))

\* a summary that joins with a bare comma
ResultStringComma(users_to_add, users_to_remove) ==
    "Added users: " \o Join(users_to_add, ",")
        \o ", Removed users: " \o Join(users_to_remove, ",")

\* the template literal of core.setOutput('result', ...)
ResultString(users_to_add, users_to_remove) ==
    "Added users: " \o Join(users_to_add, ", ")
        \o ", Removed users: " \o Join(users_to_remove, ", ")

\* a not-found error that leaves the requested name out
NotFoundMessageNoName(cost_center_name) == "Cost center not found"

\* new Error(`Cost center with name ${cost_center_name} not found`)
NotFoundMessage(cost_center_name) ==
    "Cost center with name " \o cost_center_name \o " not found"

\* console.error(`[ERROR] Cost center not found. Available centers: ...`)
NotFoundLog(centers) ==
    "[ERROR] Cost center not found. Available centers: "
        \o Join(Names(centers), ", ")

\* console.error('[ERROR] Failed to get cost center ID:', error.message)
LookupFailedLog(message) == "[ERROR] Failed to get cost center ID: " \o message

\* a fetch that asks for the organization members whatever the team input
FetchKindOrgOnly(team_name) == "listMembers"

\* if (team_name) listMembersInOrg else listMembers
FetchKind(team_name) ==
    IF team_name # "" THEN "listMembersInOrg" ELSE "listMembers"

\* the console.warn lines of getOrganizationUsers
FetchWarning(team_name, org, message) ==
    IF team_name # ""
    THEN "[WARN] Could not fetch team " \o team_name \o " from org " \o org
             \o ": " \o message
    ELSE "[WARN] Could not fetch members from org " \o org \o ": " \o message

\* core.getInput(name, { required: true }) throws this when the value is empty
InputRequiredMessage(name) == "Input required and not supplied: " \o name

(***************************************************************************)
(* State.                                                                  *)
(***************************************************************************)
VARIABLES
    pc,                \* position of run(): start, lookup, fetch, mutate, done
    inputs,            \* the action's inputs as core.getInput returns them
    cost_center,       \* the record found by getCostCenter, NoCenter before
    available,         \* names of the listed cost centers, set when none matched
    cost_center_id,
    cost_center_users,
    cost_center_orgs,
    org_idx,           \* position of the loop over organizations
    all_users,         \* the Set of getOrganizationUsers, in insertion order
    github_users,
    users_to_add,
    users_to_remove,
    add_idx,           \* position of the loop over users_to_add
    rem_idx,           \* position of the loop over users_to_remove
    requests,          \* every remote request issued, in order
    responses,         \* responses[i] is the outcome of requests[i]
    setOutputCalls,    \* values passed to core.setOutput('result', ...)
    setFailedCalls,    \* messages passed to core.setFailed
    console_error,
    console_warn,
    store,             \* the resources of the cost center at the remote side
    run,               \* number of the current run of the action
    prev,              \* the membership responses of the first run, once over
    actual,            \* actual[k]: the members the k-th fetched organization has
    costCenters,       \* mock server: name -> users of the cost center
    responseMode,      \* mock server: success, error, timeout or partial
    artificialDelay,   \* mock server: delay before a callback, in ms
    calls,             \* mock server: the cost-center requests in progress
    log,               \* mock server: the answers given, in order
    received           \* mock server: number of requests received so far

vars == <<pc, inputs, cost_center, available, cost_center_id, cost_center_users,
          cost_center_orgs, org_idx, all_users, github_users, users_to_add,
          users_to_remove, add_idx, rem_idx, requests, responses,
          setOutputCalls, setFailedCalls, console_error, console_warn,
          store, run, prev, actual, costCenters, responseMode,
          artificialDelay, calls, log, received>>

\* the state of the mock cost-center server
server_vars == <<costCenters, responseMode, artificialDelay, calls, log,
                 received>>

\* the state of one run of the action and of what it talks to
action_vars == <<pc, inputs, cost_center, available, cost_center_id,
                 cost_center_users, cost_center_orgs, org_idx, all_users,
                 github_users, users_to_add, users_to_remove, add_idx, rem_idx,
                 requests, responses, setOutputCalls, setFailedCalls,
                 console_error, console_warn, store, run, prev, actual>>

Request(kind, org, team_slug, id, users) ==
    [kind |-> kind, org |-> org, team_slug |-> team_slug,
     cost_center_id |-> id, users |-> users]

\* a resolved promise (with the member logins of a listing) or a rejected one
Resolved(members) == [ok |-> TRUE, members |-> members, message |-> ""]
Rejected(message) == [ok |-> FALSE, members |-> <<>>, message |-> message]

Init ==
    /\ pc = "start"
    /\ inputs \in [github_organization : OrgInputs,
                   github_team : TeamInputs,
                   github_cost_center_name : NameInputs,
                   github_enterprise : EnterpriseInputs,
                   github_token : TokenInputs]
    /\ cost_center = NoCenter
    /\ available = <<>>
    /\ cost_center_id = ""
    /\ cost_center_users = <<>>
    /\ cost_center_orgs = <<>>
    /\ org_idx = 1
    /\ all_users = <<>>
    /\ github_users = <<>>
    /\ users_to_add = <<>>
    /\ users_to_remove = <<>>
    /\ add_idx = 1
    /\ rem_idx = 1
    /\ requests = <<>>
    /\ responses = <<>>
    /\ setOutputCalls = <<>>
    /\ setFailedCalls = <<>>
    /\ console_error = <<>>
    /\ console_warn = <<>>
    /\ store = <<>>
    /\ run = 1
    /\ prev = NoRun
    /\ actual = <<>>
    /\ costCenters = InitialCostCenters
    /\ responseMode = "success"
    /\ artificialDelay = DefaultDelay
    /\ calls = <<>>
    /\ log = <<>>
    /\ received = 0

\* a catch that ends the run without reporting the failure
FailSilently(message) ==
    /\ UNCHANGED setFailedCalls
    /\ pc' = "done"

\* catch (error) { core.setFailed(error.message) }
Fail(message) ==
    /\ setFailedCalls' = Append(setFailedCalls, message)
    /\ pc' = "done"

\* a reading of the inputs that does not require github_token
MissingInputNoToken ==
    IF inputs.github_cost_center_name = "" THEN "github_cost_center_name"
    ELSE IF inputs.github_enterprise = "" THEN "github_enterprise"
    ELSE ""

\* The first required input that is empty, in the order run() reads them.
MissingInput ==
    IF inputs.github_cost_center_name = "" THEN "github_cost_center_name"
    ELSE IF inputs.github_enterprise = "" THEN "github_enterprise"
    ELSE IF inputs.github_token = "" THEN "github_token"
    ELSE ""

\* run(), the four core.getInput calls
ReadInputs ==
    /\ pc = "start"
    /\ IF MissingInput # ""
       THEN Fail(InputRequiredMessage(MissingInput))
       ELSE /\ pc' = "lookup"
            /\ UNCHANGED setFailedCalls
    /\ UNCHANGED <<store, run, prev, actual, server_vars>>
    /\ UNCHANGED <<inputs, cost_center, available, cost_center_id,
                   cost_center_users, cost_center_orgs, org_idx, all_users,
                   github_users, users_to_add, users_to_remove, add_idx,
                   rem_idx, requests, responses, setOutputCalls,
                   console_error, console_warn>>

\* The listing the remote side returns: cost centers of distinct names, each
\* with an id of its own; the center carrying the requested name holds the
\* given resources.  run() reads the resources of no other center, so those
\* are left empty.
Listing(names, resources, cost_center_name) ==
    [i \in 1..Len(names) |->
        [id |-> "id-" \o names[i], name |-> names[i],
         resources |-> IF names[i] = cost_center_name THEN resources ELSE <<>>]]

\* the lists of names a listing can carry
NameLists == {s \in SeqsUpTo(CenterNames, MaxCenters) : NoDup(s)}

\* getCostCenter, the listing request fails
GetCostCenterError ==
    /\ pc = "lookup"
    /\ requests' = Append(requests, Request("listCostCenters", "", "", "", <<>>))
    /\ \E message \in ErrMsgs, hasResponse \in BOOLEAN :
          /\ console_error' =
                console_error \o <<LookupFailedLog(message)>>
                    \o (IF hasResponse THEN <<"[ERROR] API Response:">> ELSE <<>>)
          /\ responses' = Append(responses, Rejected(message))
          /\ Fail(message)
    /\ UNCHANGED <<store, run, prev, actual, server_vars>>
    /\ UNCHANGED <<inputs, cost_center, available, cost_center_id,
                   cost_center_users, cost_center_orgs, org_idx, all_users,
                   github_users, users_to_add, users_to_remove, add_idx,
                   rem_idx, setOutputCalls, console_warn>>

\* a lookup that, finding no center of the requested name, takes the first
\* center of the listing
GetCostCenterNotFoundFallback ==
    /\ pc = "lookup"
    /\ requests' = Append(requests, Request("listCostCenters", "", "", "", <<>>))
    /\ \E names \in NameLists, resources \in ResourceSeqs :
          LET centers == Listing(names, <<>>, inputs.github_cost_center_name)
              found == [centers[1] EXCEPT !.resources = resources]
          IN  /\ names # <<>>
              /\ Find(centers, inputs.github_cost_center_name) = NoCenter
              /\ available' = Names(centers)
              /\ cost_center' = found
              /\ store' = found.resources
              /\ cost_center_id' = found.id
              /\ cost_center_users' = Names(OfType(found.resources, "User"))
              /\ cost_center_orgs' = Names(OfType(found.resources, "Org"))
    /\ responses' = Append(responses, Resolved(<<>>))
    /\ pc' = "fetch"
    /\ UNCHANGED <<run, prev, actual, server_vars>>
    /\ UNCHANGED <<inputs, org_idx, all_users, github_users,
                   users_to_add, users_to_remove, add_idx, rem_idx,
                   setOutputCalls, setFailedCalls, console_error, console_warn>>

\* getCostCenter, the listing holds no center of the requested name
GetCostCenterNotFound ==
    /\ pc = "lookup"
    /\ requests' = Append(requests, Request("listCostCenters", "", "", "", <<>>))
    /\ \E names \in NameLists :
          LET centers == Listing(names, <<>>, inputs.github_cost_center_name)
              message == NotFoundMessage(inputs.github_cost_center_name)
          IN  /\ Find(centers, inputs.github_cost_center_name) = NoCenter
              /\ available' = Names(centers)
              /\ console_error' =
                    console_error \o <<NotFoundLog(centers),
                                       LookupFailedLog(message)>>
              /\ Fail(message)
    /\ responses' = Append(responses, Resolved(<<>>))
    /\ UNCHANGED <<store, run, prev, actual, server_vars>>
    /\ UNCHANGED <<inputs, cost_center, cost_center_id, cost_center_users,
                   cost_center_orgs, org_idx, all_users, github_users,
                   users_to_add, users_to_remove, add_idx, rem_idx,
                   setOutputCalls, console_warn>>

\* getCostCenter, a center of the requested name is found
GetCostCenterFound ==
    /\ pc = "lookup"
    /\ requests' = Append(requests, Request("listCostCenters", "", "", "", <<>>))
    /\ \E names \in NameLists, resources \in ResourceSeqs :
          LET centers == Listing(names, resources, inputs.github_cost_center_name)
              found == Find(centers, inputs.github_cost_center_name)
          IN  /\ found # NoCenter
              /\ cost_center' = found
              /\ store' = found.resources
              /\ cost_center_id' = found.id
              /\ cost_center_users' = Names(OfType(found.resources, "User"))
              /\ cost_center_orgs' = Names(OfType(found.resources, "Org"))
    /\ responses' = Append(responses, Resolved(<<>>))
    /\ pc' = "fetch"
    /\ UNCHANGED <<run, prev, actual, server_vars>>
    /\ UNCHANGED <<inputs, available, org_idx, all_users, github_users,
                   users_to_add, users_to_remove, add_idx, rem_idx,
                   setOutputCalls, setFailedCalls, console_error, console_warn>>

GetCostCenter ==
    GetCostCenterError \/ GetCostCenterNotFound \/ GetCostCenterFound

\* a loop over the organizations that ends at the first rejected fetch
FetchMembersStopOnError ==
    /\ pc = "fetch"
    /\ org_idx <= Len(cost_center_orgs)
    /\ LET org == cost_center_orgs[org_idx]
           team_name == inputs.github_team
           kind == FetchKind(team_name)
       IN  /\ requests' = Append(requests, Request(kind, org, team_name, "", <<>>))
           /\ \/ \E members \in MemberLists :
                    /\ all_users' = AddAll(all_users, members)
                    /\ responses' = Append(responses, Resolved(members))
                    /\ UNCHANGED console_warn
              \/ \E message \in ErrMsgs :
                    /\ console_warn' = Append(console_warn,
                          FetchWarning(team_name, org, message))
                    /\ responses' = Append(responses, Rejected(message))
                    /\ UNCHANGED all_users
    /\ org_idx' = IF responses'[Len(responses')].ok
                  THEN org_idx + 1
                  ELSE Len(cost_center_orgs) + 1
    /\ UNCHANGED <<store, run, prev, actual, server_vars>>
    /\ UNCHANGED <<pc, inputs, cost_center, available, cost_center_id,
                   cost_center_users, cost_center_orgs, github_users,
                   users_to_add, users_to_remove, add_idx, rem_idx,
                   setOutputCalls, setFailedCalls, console_error>>

\* a loop over the organizations that fetches again after its first rejected
\* fetch
FetchMembersRetryOnce ==
    /\ pc = "fetch"
    /\ org_idx <= Len(cost_center_orgs)
    /\ LET org == cost_center_orgs[org_idx]
           team_name == inputs.github_team
           kind == FetchKind(team_name)
       IN  /\ requests' = Append(requests, Request(kind, org, team_name, "", <<>>))
           /\ \/ \E members \in MemberLists :
                    /\ all_users' = AddAll(all_users, members)
                    /\ responses' = Append(responses, Resolved(members))
                    /\ UNCHANGED console_warn
              \/ \E message \in ErrMsgs :
                    /\ console_warn' = Append(console_warn,
                          FetchWarning(team_name, org, message))
                    /\ responses' = Append(responses, Rejected(message))
                    /\ UNCHANGED all_users
    /\ org_idx' = IF ~responses'[Len(responses')].ok /\ console_warn = <<>>
                  THEN org_idx
                  ELSE org_idx + 1
    /\ UNCHANGED <<store, run, prev, actual, server_vars>>
    /\ UNCHANGED <<pc, inputs, cost_center, available, cost_center_id,
                   cost_center_users, cost_center_orgs, github_users,
                   users_to_add, users_to_remove, add_idx, rem_idx,
                   setOutputCalls, setFailedCalls, console_error>>

\* getOrganizationUsers, one iteration of the loop over organizations
FetchMembers ==
    /\ pc = "fetch"
    /\ org_idx <= Len(cost_center_orgs)
    /\ LET org == cost_center_orgs[org_idx]
           team_name == inputs.github_team
           kind == FetchKind(team_name)
       IN  /\ requests' = Append(requests, Request(kind, org, team_name, "", <<>>))
           /\ \/ \E members \in MemberLists :
                    /\ all_users' = AddAll(all_users, members)
                    /\ responses' = Append(responses, Resolved(members))
                    /\ UNCHANGED console_warn
              \/ \E message \in ErrMsgs :
                    /\ console_warn' = Append(console_warn,
                          FetchWarning(team_name, org, message))
                    /\ responses' = Append(responses, Rejected(message))
                    /\ UNCHANGED all_users
    /\ org_idx' = org_idx + 1
    /\ UNCHANGED <<store, run, prev, actual, server_vars>>
    /\ UNCHANGED <<pc, inputs, cost_center, available, cost_center_id,
                   cost_center_users, cost_center_orgs, github_users,
                   users_to_add, users_to_remove, add_idx, rem_idx,
                   setOutputCalls, setFailedCalls, console_error>>

\* run(), the two filters once getOrganizationUsers has returned
Reconcile ==
    /\ pc = "fetch"
    /\ org_idx > Len(cost_center_orgs)
    /\ github_users' = all_users
    /\ users_to_add' = UsersToAdd(all_users, cost_center_users)
    /\ users_to_remove' = UsersToRemove(all_users, cost_center_users)
    /\ pc' = "mutate"
    /\ UNCHANGED <<store, run, prev, actual, server_vars>>
    /\ UNCHANGED <<inputs, cost_center, available, cost_center_id,
                   cost_center_users, cost_center_orgs, org_idx, all_users,
                   add_idx, rem_idx, requests, responses, setOutputCalls,
                   setFailedCalls, console_error, console_warn>>

\* all of users_to_add sent in one request
AddUserBatch ==
    /\ pc = "mutate"
    /\ add_idx <= Len(users_to_add)
    /\ requests' = Append(requests,
          Request("POST", "", "", cost_center_id, users_to_add))
    /\ \/ /\ responses' = Append(responses, Resolved(<<>>))
          /\ store' = StoreAddAll(store, users_to_add)
          /\ add_idx' = Len(users_to_add) + 1
          /\ UNCHANGED <<pc, setFailedCalls>>
       \/ /\ \E message \in ErrMsgs :
                /\ responses' = Append(responses, Rejected(message))
                /\ Fail(message)
          /\ UNCHANGED store
          /\ UNCHANGED add_idx
    /\ UNCHANGED <<run, prev, actual, server_vars>>
    /\ UNCHANGED <<inputs, cost_center, available, cost_center_id,
                   cost_center_users, cost_center_orgs, org_idx, all_users,
                   github_users, users_to_add, users_to_remove, rem_idx,
                   setOutputCalls, console_error, console_warn>>

\* a rejected add swallowed inside the loop, which then goes on
AddUserContinue ==
    /\ pc = "mutate"
    /\ add_idx <= Len(users_to_add)
    /\ requests' = Append(requests,
          Request("POST", "", "", cost_center_id, <<users_to_add[add_idx]>>))
    /\ \/ /\ responses' = Append(responses, Resolved(<<>>))
          /\ store' = StoreAdd(store, users_to_add[add_idx])
       \/ /\ \E message \in ErrMsgs :
                responses' = Append(responses, Rejected(message))
          /\ UNCHANGED store
    /\ add_idx' = add_idx + 1
    /\ UNCHANGED <<pc, setFailedCalls>>
    /\ UNCHANGED <<run, prev, actual, server_vars>>
    /\ UNCHANGED <<inputs, cost_center, available, cost_center_id,
                   cost_center_users, cost_center_orgs, org_idx, all_users,
                   github_users, users_to_add, users_to_remove, rem_idx,
                   setOutputCalls, console_error, console_warn>>

\* a loop that sends the add request of every user without awaiting any
AddUserUnawaited ==
    /\ pc = "mutate"
    /\ add_idx <= Len(users_to_add)
    /\ requests' = requests \o
          [i \in 1..Len(users_to_add) |->
              Request("POST", "", "", cost_center_id, <<users_to_add[i]>>)]
    /\ responses' = responses \o
          [i \in 1..Len(users_to_add) |-> Resolved(<<>>)]
    /\ store' = StoreAddAll(store, users_to_add)
    /\ add_idx' = Len(users_to_add) + 1
    /\ UNCHANGED <<pc, setFailedCalls>>
    /\ UNCHANGED <<run, prev, actual, server_vars>>
    /\ UNCHANGED <<inputs, cost_center, available, cost_center_id,
                   cost_center_users, cost_center_orgs, org_idx, all_users,
                   github_users, users_to_add, users_to_remove, rem_idx,
                   setOutputCalls, console_error, console_warn>>

\* run(), one iteration of the loop over users_to_add
AddUser ==
    /\ pc = "mutate"
    /\ add_idx <= Len(users_to_add)
    /\ requests' = Append(requests,
          Request("POST", "", "", cost_center_id, <<users_to_add[add_idx]>>))
    /\ \/ /\ responses' = Append(responses, Resolved(<<>>))
          /\ store' = StoreAdd(store, users_to_add[add_idx])
          /\ add_idx' = add_idx + 1
          /\ UNCHANGED <<pc, setFailedCalls>>
       \/ /\ \E message \in ErrMsgs :
                /\ responses' = Append(responses, Rejected(message))
                /\ Fail(message)
          /\ UNCHANGED store
          /\ UNCHANGED add_idx
    /\ UNCHANGED <<run, prev, actual, server_vars>>
    /\ UNCHANGED <<inputs, cost_center, available, cost_center_id,
                   cost_center_users, cost_center_orgs, org_idx, all_users,
                   github_users, users_to_add, users_to_remove, rem_idx,
                   setOutputCalls, console_error, console_warn>>

\* a remove loop that does not wait for the add loop to be over
RemoveUserAnyTime ==
    /\ pc = "mutate"
    /\ rem_idx <= Len(users_to_remove)
    /\ requests' = Append(requests,
          Request("DELETE", "", "", cost_center_id, <<users_to_remove[rem_idx]>>))
    /\ \/ /\ responses' = Append(responses, Resolved(<<>>))
          /\ store' = StoreRemove(store, users_to_remove[rem_idx])
          /\ rem_idx' = rem_idx + 1
          /\ UNCHANGED <<pc, setFailedCalls>>
       \/ /\ \E message \in ErrMsgs :
                /\ responses' = Append(responses, Rejected(message))
                /\ Fail(message)
          /\ UNCHANGED store
          /\ UNCHANGED rem_idx
    /\ UNCHANGED <<run, prev, actual, server_vars>>
    /\ UNCHANGED <<inputs, cost_center, available, cost_center_id,
                   cost_center_users, cost_center_orgs, org_idx, all_users,
                   github_users, users_to_add, users_to_remove, add_idx,
                   setOutputCalls, console_error, console_warn>>

\* run(), one iteration of the loop over users_to_remove
RemoveUser ==
    /\ pc = "mutate"
    /\ add_idx > Len(users_to_add)
    /\ rem_idx <= Len(users_to_remove)
    /\ requests' = Append(requests,
          Request("DELETE", "", "", cost_center_id, <<users_to_remove[rem_idx]>>))
    /\ \/ /\ responses' = Append(responses, Resolved(<<>>))
          /\ store' = StoreRemove(store, users_to_remove[rem_idx])
          /\ rem_idx' = rem_idx + 1
          /\ UNCHANGED <<pc, setFailedCalls>>
       \/ /\ \E message \in ErrMsgs :
                /\ responses' = Append(responses, Rejected(message))
                /\ Fail(message)
          /\ UNCHANGED store
          /\ UNCHANGED rem_idx
    /\ UNCHANGED <<run, prev, actual, server_vars>>
    /\ UNCHANGED <<inputs, cost_center, available, cost_center_id,
                   cost_center_users, cost_center_orgs, org_idx, all_users,
                   github_users, users_to_add, users_to_remove, add_idx,
                   setOutputCalls, console_error, console_warn>>

\* run(), core.setOutput('result', ...)
SetResult ==
    /\ pc = "mutate"
    /\ add_idx > Len(users_to_add)
    /\ rem_idx > Len(users_to_remove)
    /\ setOutputCalls' = Append(setOutputCalls,
          ResultString(users_to_add, users_to_remove))
    /\ pc' = "done"
    /\ UNCHANGED <<store, run, prev, actual, server_vars>>
    /\ UNCHANGED <<inputs, cost_center, available, cost_center_id,
                   cost_center_users, cost_center_orgs, org_idx, all_users,
                   github_users, users_to_add, users_to_remove, add_idx,
                   rem_idx, requests, responses, setFailedCalls,
                   console_error, console_warn>>

Next ==
    \/ ReadInputs
    \/ GetCostCenter
    \/ FetchMembers
    \/ Reconcile
    \/ AddUser
    \/ RemoveUser
    \/ SetResult

Spec == Init /\ [][Next]_vars

(***************************************************************************)
(* Consecutive runs against a remote side that keeps what the requests     *)
(* did: the listing of a later run shows the store as the earlier runs     *)
(* left it, and every organization answers as it did in the first run.     *)
(***************************************************************************)
FetchResponses ==
    LET idx == {i \in 1..Len(requests) :
                   requests[i].kind \in {"listMembers", "listMembersInOrg"}}
        pos(k) == CHOOSE i \in idx : Cardinality({j \in idx : j <= i}) = k
    IN  [k \in 1..Cardinality(idx) |-> responses[pos(k)]]

\* the action is started again after a run that set its result
StartNextRun ==
    /\ pc = "done"
    /\ run < MaxRuns
    /\ setOutputCalls # <<>>
    /\ run' = run + 1
    /\ prev' = IF run = 1
               THEN [responses |-> FetchResponses, added |-> users_to_add,
                     removed |-> users_to_remove]
               ELSE prev
    /\ pc' = "start"
    /\ cost_center' = NoCenter
    /\ available' = <<>>
    /\ cost_center_id' = ""
    /\ cost_center_users' = <<>>
    /\ cost_center_orgs' = <<>>
    /\ org_idx' = 1
    /\ all_users' = <<>>
    /\ github_users' = <<>>
    /\ users_to_add' = <<>>
    /\ users_to_remove' = <<>>
    /\ add_idx' = 1
    /\ rem_idx' = 1
    /\ requests' = <<>>
    /\ responses' = <<>>
    /\ setOutputCalls' = <<>>
    /\ setFailedCalls' = <<>>
    /\ console_error' = <<>>
    /\ console_warn' = <<>>
    /\ UNCHANGED <<inputs, store, actual, server_vars>>

\* getCostCenter in a later run: the record found carries the stored resources
NextGetCostCenter ==
    /\ pc = "lookup"
    /\ run > 1
    /\ requests' = Append(requests, Request("listCostCenters", "", "", "", <<>>))
    /\ LET centers == Listing(<<inputs.github_cost_center_name>>, store,
                              inputs.github_cost_center_name)
           found == Find(centers, inputs.github_cost_center_name)
       IN  /\ cost_center' = found
           /\ cost_center_id' = found.id
           /\ cost_center_users' = Names(OfType(found.resources, "User"))
           /\ cost_center_orgs' = Names(OfType(found.resources, "Org"))
    /\ responses' = Append(responses, Resolved(<<>>))
    /\ pc' = "fetch"
    /\ UNCHANGED <<store, run, prev, actual, server_vars>>
    /\ UNCHANGED <<inputs, available, org_idx, all_users, github_users,
                   users_to_add, users_to_remove, add_idx, rem_idx,
                   setOutputCalls, setFailedCalls, console_error, console_warn>>

\* getOrganizationUsers in a later run: the organization answers as before
NextFetchMembers ==
    /\ pc = "fetch"
    /\ run > 1
    /\ org_idx <= Len(cost_center_orgs)
    /\ LET org == cost_center_orgs[org_idx]
           team_name == inputs.github_team
           answer == prev.responses[org_idx]
       IN  /\ requests' = Append(requests,
                 Request(FetchKind(team_name), org, team_name, "", <<>>))
           /\ responses' = Append(responses, answer)
           /\ IF answer.ok
              THEN /\ all_users' = AddAll(all_users, answer.members)
                   /\ UNCHANGED console_warn
              ELSE /\ console_warn' = Append(console_warn,
                         FetchWarning(team_name, org, answer.message))
                   /\ UNCHANGED all_users
    /\ org_idx' = org_idx + 1
    /\ UNCHANGED <<store, run, prev, actual, server_vars>>
    /\ UNCHANGED <<pc, inputs, cost_center, available, cost_center_id,
                   cost_center_users, cost_center_orgs, github_users,
                   users_to_add, users_to_remove, add_idx, rem_idx,
                   setOutputCalls, setFailedCalls, console_error>>

NextRuns ==
    \/ ReadInputs
    \/ (run = 1 /\ GetCostCenter)
    \/ (run = 1 /\ FetchMembers)
    \/ Reconcile
    \/ AddUser
    \/ RemoveUser
    \/ SetResult
    \/ StartNextRun
    \/ NextGetCostCenter
    \/ NextFetchMembers

SpecRuns == Init /\ [][NextRuns]_vars

(***************************************************************************)
(* The run with the membership the organizations actually have: a fetch    *)
(* either returns the members of the organization (of the team in it) or   *)
(* is rejected, and the members are recorded in both cases.                *)
(***************************************************************************)
\* getOrganizationUsers, one iteration of the loop over organizations
FetchActualMembers ==
    /\ pc = "fetch"
    /\ org_idx <= Len(cost_center_orgs)
    /\ LET org == cost_center_orgs[org_idx]
           team_name == inputs.github_team
       IN  /\ requests' = Append(requests,
                 Request(FetchKind(team_name), org, team_name, "", <<>>))
           /\ \E members \in MemberLists :
                 /\ actual' = Append(actual, members)
                 /\ \/ /\ all_users' = AddAll(all_users, members)
                       /\ responses' = Append(responses, Resolved(members))
                       /\ UNCHANGED console_warn
                    \/ \E message \in ErrMsgs :
                          /\ console_warn' = Append(console_warn,
                                FetchWarning(team_name, org, message))
                          /\ responses' = Append(responses, Rejected(message))
                          /\ UNCHANGED all_users
    /\ org_idx' = org_idx + 1
    /\ UNCHANGED <<store, run, prev, server_vars>>
    /\ UNCHANGED <<pc, inputs, cost_center, available, cost_center_id,
                   cost_center_users, cost_center_orgs, github_users,
                   users_to_add, users_to_remove, add_idx, rem_idx,
                   setOutputCalls, setFailedCalls, console_error>>

NextActual ==
    \/ ReadInputs
    \/ GetCostCenter
    \/ FetchActualMembers
    \/ Reconcile
    \/ AddUser
    \/ RemoveUser
    \/ SetResult

SpecActual == Init /\ [][NextActual]_vars

(***************************************************************************)
(* The mock cost-center server (test-infrastructure/mock-api/server.js).   *)
(* A cost-center request goes through handleResponseMode: a timer, then,   *)
(* unless the mode answers or drops it, the artificial delay, then the     *)
(* callback of its route.  /health, /config/... and /reset answer at once. *)
(***************************************************************************)
CostCenterOps == {"GET users", "POST user", "DELETE user", "GET list"}

\* calls without its i-th element: the request is answered or dropped
Settle(i) == [k \in 1..(Len(calls) - 1) |-> IF k < i THEN calls[k] ELSE calls[k + 1]]

\* one answer (of a cost-center request or of a reset), with the mode in
\* force when it is given, whether the stored cost centers changed with it
\* and how many other cost-center requests were in progress then
Answer(op, name, username, status, mode, changed) ==
    [op |-> op, name |-> name, username |-> username, status |-> status,
     mode |-> mode, changed |-> changed,
     pending |-> IF op \in CostCenterOps THEN Len(calls) - 1 ELSE Len(calls)]

\* costCenter.users.find(user => user.login === username) /
\* costCenter.users.findIndex(user => user.login === username)
FindIndex(users, username) ==
    LET hits == {i \in 1..Len(users) : users[i].login = username}
    IN  IF hits = {} THEN 0 ELSE CHOOSE i \in hits : \A j \in hits : i <= j

\* users.splice(userIndex, 1)
Splice(users, userIndex) ==
    [k \in 1..(Len(users) - 1) |->
        IF k < userIndex THEN users[k] ELSE users[k + 1]]

\* the server as it starts: the three cost centers, MOCK_RESPONSE_MODE from
\* the environment, no request received; the action is not running
ServerInit ==
    /\ Init
    /\ inputs = [github_organization |-> "", github_team |-> "",
                 github_cost_center_name |-> "", github_enterprise |-> "",
                 github_token |-> ""]

\* Express hands a cost-center request to its route, which calls
\* handleResponseMode: setTimeout(..., 0)
Receive ==
    /\ received < MaxRequests
    /\ received' = received + 1
    /\ \E op \in CostCenterOps, name \in NameParams \cup {""},
          username \in UsernameParams \cup {""} :
          /\ name = "" <=> op = "GET list"
          /\ op \in {"GET list", "GET users"} => username = ""
          /\ op = "DELETE user" => username # ""
          /\ calls' = Append(calls,
                [op |-> op, name |-> name, username |-> username,
                 phase |-> "timer", delay |-> 0])
    /\ UNCHANGED <<costCenters, responseMode, artificialDelay, log>>
    /\ UNCHANGED action_vars

\* handleResponseMode, the timer callback up to await delay(artificialDelay)
HandleResponseMode ==
    /\ \E i \in 1..Len(calls) :
          /\ calls[i].phase = "timer"
          /\ \A j \in 1..(i - 1) : calls[j].phase # "timer"
          /\ LET c == calls[i]
                 answer500 ==
                     /\ calls' = Settle(i)
                     /\ log' = Append(log, Answer(c.op, c.name, c.username,
                                                  500, responseMode, FALSE))
                 goOn ==
                     /\ calls' = [calls EXCEPT ![i].phase = "delay",
                                               ![i].delay = artificialDelay]
                     /\ UNCHANGED log
             IN  CASE responseMode = "error" -> answer500
                   [] responseMode = "timeout" ->
                         /\ calls' = Settle(i)
                         /\ UNCHANGED log
                   [] responseMode = "partial" -> answer500 \/ goOn
                   [] OTHER -> goOn
    /\ UNCHANGED <<costCenters, responseMode, artificialDelay, received>>
    /\ UNCHANGED action_vars

\* GET /cost-centers/:name/users, the callback
GetUsersCallback(c) ==
    /\ log' = Append(log, Answer(c.op, c.name, c.username,
                                 IF c.name \in DOMAIN costCenters
                                 THEN 200 ELSE 404,
                                 responseMode, FALSE))
    /\ UNCHANGED costCenters

\* a POST callback that pushes the user without looking for the login
PostUserNoCheck(c) ==
    IF c.username = ""
    THEN /\ log' = Append(log, Answer(c.op, c.name, c.username, 400,
                                      responseMode, FALSE))
         /\ UNCHANGED costCenters
    ELSE \E id \in NewIds :
            LET users == IF c.name \in DOMAIN costCenters
                         THEN costCenters[c.name] ELSE <<>>
                added == Append(users, [login |-> c.username, id |-> id])
            IN  /\ costCenters' =
                      [n \in DOMAIN costCenters \cup {c.name} |->
                          IF n = c.name THEN added ELSE costCenters[n]]
                /\ log' = Append(log, Answer(c.op, c.name, c.username, 201,
                                             responseMode, TRUE))

\* POST /cost-centers/:name/users, the callback
PostUserCallback(c) ==
    IF c.username = ""
    THEN /\ log' = Append(log, Answer(c.op, c.name, c.username, 400,
                                      responseMode, FALSE))
         /\ UNCHANGED costCenters
    ELSE LET created == c.name \notin DOMAIN costCenters
             users == IF created THEN <<>> ELSE costCenters[c.name]
         IN  IF FindIndex(users, c.username) # 0
             THEN /\ log' = Append(log, Answer(c.op, c.name, c.username, 409,
                                               responseMode, FALSE))
                  /\ UNCHANGED costCenters
             ELSE \E id \in NewIds :
                     /\ costCenters' =
                           [n \in DOMAIN costCenters \cup {c.name} |->
                               IF n = c.name
                               THEN Append(users, [login |-> c.username,
                                                   id |-> id])
                               ELSE costCenters[n]]
                     /\ log' = Append(log, Answer(c.op, c.name, c.username,
                                                  201, responseMode, TRUE))

\* DELETE /cost-centers/:name/users/:username, the callback
DeleteUserCallback(c) ==
    IF c.name \notin DOMAIN costCenters
    THEN /\ log' = Append(log, Answer(c.op, c.name, c.username, 404,
                                      responseMode, FALSE))
         /\ UNCHANGED costCenters
    ELSE LET userIndex == FindIndex(costCenters[c.name], c.username)
         IN  IF userIndex = 0
             THEN /\ log' = Append(log, Answer(c.op, c.name, c.username, 404,
                                               responseMode, FALSE))
                  /\ UNCHANGED costCenters
             ELSE /\ costCenters' =
                        [costCenters EXCEPT
                            ![c.name] = Splice(costCenters[c.name], userIndex)]
                  /\ log' = Append(log, Answer(c.op, c.name, c.username, 200,
                                               responseMode, TRUE))

\* GET /cost-centers, the callback
ListCallback(c) ==
    /\ log' = Append(log, Answer(c.op, c.name, c.username, 200,
                                 responseMode, FALSE))
    /\ UNCHANGED costCenters

\* handleResponseMode once the delay is over: await successCallback().  Of
\* two delays running, the one started later ends first only if it is the
\* shorter one.
Callback ==
    /\ \E i \in 1..Len(calls) :
          /\ calls[i].phase = "delay"
          /\ \A j \in 1..(i - 1) :
                calls[j].phase = "delay" => calls[j].delay > calls[i].delay
          /\ calls' = Settle(i)
          /\ CASE calls[i].op = "GET users" -> GetUsersCallback(calls[i])
               [] calls[i].op = "POST user" -> PostUserCallback(calls[i])
               [] calls[i].op = "DELETE user" -> DeleteUserCallback(calls[i])
               [] OTHER -> ListCallback(calls[i])
    /\ UNCHANGED <<responseMode, artificialDelay, received>>
    /\ UNCHANGED action_vars

\* POST /config/response-mode
ConfigResponseMode ==
    /\ received < MaxRequests
    /\ \E mode \in ModeInputs :
          IF mode \in ResponseModes
          THEN responseMode' = mode
          ELSE UNCHANGED responseMode
    /\ received' = received + 1
    /\ UNCHANGED <<costCenters, artificialDelay, calls, log>>
    /\ UNCHANGED action_vars

\* POST /config/delay
ConfigDelay ==
    /\ received < MaxRequests
    /\ \E delay \in DelayInputs :
          IF delay >= 0
          THEN artificialDelay' = delay
          ELSE UNCHANGED artificialDelay
    /\ received' = received + 1
    /\ UNCHANGED <<costCenters, responseMode, calls, log>>
    /\ UNCHANGED action_vars

\* a reset that restores the initial cost centers and keeps the others
ResetKeepOthers ==
    /\ received < MaxRequests
    /\ costCenters' =
          [n \in DOMAIN costCenters \cup DOMAIN InitialCostCenters |->
              IF n \in DOMAIN InitialCostCenters
              THEN InitialCostCenters[n] ELSE costCenters[n]]
    /\ responseMode' = "success"
    /\ artificialDelay' = DefaultDelay
    /\ log' = Append(log, Answer("reset", "", "", 200, responseMode,
                                 costCenters' # costCenters))
    /\ received' = received + 1
    /\ UNCHANGED calls
    /\ UNCHANGED action_vars

\* POST /reset
Reset ==
    /\ received < MaxRequests
    /\ costCenters' = InitialCostCenters
    /\ responseMode' = "success"
    /\ artificialDelay' = DefaultDelay
    /\ log' = Append(log, Answer("reset", "", "", 200, responseMode,
                                 costCenters # InitialCostCenters))
    /\ received' = received + 1
    /\ UNCHANGED calls
    /\ UNCHANGED action_vars

NextServer ==
    \/ Receive
    \/ HandleResponseMode
    \/ Callback
    \/ ConfigResponseMode
    \/ ConfigDelay
    \/ Reset

SpecServer ==
    /\ ServerInit
    /\ [][NextServer]_vars

TypeOK ==
    /\ pc \in {"start", "lookup", "fetch", "mutate", "done"}
    /\ Range(cost_center_users) \subseteq Users
    /\ Range(cost_center_orgs) \subseteq Orgs
    /\ Range(all_users) \subseteq Users
    /\ NoDup(all_users)
    /\ Len(setOutputCalls) + Len(setFailedCalls) <= 1
    /\ Len(responses) = Len(requests)
    /\ run \in 1..MaxRuns
    /\ Len(actual) <= Len(requests)
    /\ responseMode \in ResponseModes
    /\ artificialDelay >= 0
    /\ received \in 0..MaxRequests
    /\ Len(calls) + Len(log) <= received
    /\ \A i \in 1..Len(calls) : calls[i].phase \in {"timer", "delay"}
    /\ run = 1 => prev = NoRun
    /\ \A i \in 1..Len(store) : store[i].type \in {"Org", "User", "Repo"}

(***************************************************************************)
(* Vocabulary of the properties.                                           *)
(***************************************************************************)
IsFetch(i) == requests[i].kind \in {"listMembers", "listMembersInOrg"}
IsAdd(i) == requests[i].kind = "POST"
IsRemove(i) == requests[i].kind = "DELETE"
IsMutation(i) == IsAdd(i) \/ IsRemove(i)

\* the members returned by the membership fetches that succeeded
Desired ==
    UNION {Range(responses[i].members) :
              i \in {j \in 1..Len(requests) : IsFetch(j) /\ responses[j].ok}}

\* the direct members recorded on the cost-center record
Current ==
    {r.name : r \in {x \in Range(cost_center.resources) : x.type = "User"}}

\* the organizations linked on the cost-center record, in record order
LinkedOrgs == Names(SelectSeq(cost_center.resources, LAMBDA r : r.type = "Org"))

\* run() has computed users_to_add and users_to_remove
Reconciled == cost_center # NoCenter /\ pc \in {"mutate", "done"}

AddRequests == SelectSeq(requests, LAMBDA q : q.kind = "POST")
RemoveRequests == SelectSeq(requests, LAMBDA q : q.kind = "DELETE")
FetchRequests ==
    SelectSeq(requests, LAMBDA q : q.kind \in {"listMembers", "listMembersInOrg"})

\* the single user of each request of a list of requests
OnlyUsers(reqs) == [i \in 1..Len(reqs) |-> reqs[i].users[1]]

NoCallFailed == \A i \in 1..Len(responses) : responses[i].ok

\* sub occurs in s
Contains(s, sub) ==
    \E i \in 1..(Len(s) - Len(sub) + 1) : SubSeq(s, i, i + Len(sub) - 1) = sub

\* the elements of a list separated by ", ", built from the left
CommaList(arr) ==
    LET acc[i \in 0..Len(arr)] ==
            IF i = 0 THEN ""
            ELSE IF i = 1 THEN arr[1]
            ELSE acc[i - 1] \o ", " \o arr[i]
    IN  acc[Len(arr)]

(***************************************************************************)
(* C1: once run() has reconciled, users_to_add holds exactly the desired   *)
(* members that are not current members and users_to_remove exactly the    *)
(* current members that are not desired; an empty desired set gives an     *)
(* empty users_to_add and all of current to remove, an empty current set   *)
(* gives an empty users_to_remove and all of desired to add.               *)
(***************************************************************************)
C1_SetDifferences ==
    Reconciled =>
        LET desired == Desired
            current == Current
        IN  /\ Range(users_to_add) = desired \ current
            /\ Range(users_to_remove) = current \ desired
            /\ NoDup(users_to_add)
            /\ desired = {} =>
                  users_to_add = <<>> /\ users_to_remove = cost_center_users
            /\ current = {} =>
                  users_to_remove = <<>> /\ Range(users_to_add) = desired

C1_Witness ==
    /\ Reconciled
    /\ Desired \ Current # {}
    /\ Current \ Desired # {}

(***************************************************************************)
(* C2: in every run no member identifier is both in users_to_add and in    *)
(* users_to_remove.                                                        *)
(***************************************************************************)
C2_AddRemoveDisjoint ==
    Range(users_to_add) \cap Range(users_to_remove) = {}

C2_Witness ==
    /\ pc = "done"
    /\ setOutputCalls # <<>>
    /\ users_to_add # <<>>
    /\ users_to_remove # <<>>

(***************************************************************************)
(* C3: when the desired set equals the current set the run issues no add   *)
(* and no remove request, and it ends with the result output               *)
(* "Added users: , Removed users: ".                                       *)
(***************************************************************************)
C3_InSyncNoChange ==
    (Reconciled /\ Desired = Current) =>
        /\ AddRequests = <<>>
        /\ RemoveRequests = <<>>
        /\ pc = "done" =>
              /\ setOutputCalls = <<"Added users: , Removed users: ">>
              /\ setFailedCalls = <<>>

C3_Witness ==
    /\ Reconciled
    /\ pc = "done"
    /\ Desired = Current
    /\ Desired # {}

(***************************************************************************)
(* C4: on a finished run in which no remote call failed there is one add   *)
(* request per element of users_to_add and one remove request per element  *)
(* of users_to_remove, each carrying exactly one user; an empty desired    *)
(* set gives no add request and one remove per current member, an empty    *)
(* cost center gives no remove request and one add per desired member.     *)
(***************************************************************************)
C4_OneRequestPerUser ==
    (pc = "done" /\ Reconciled /\ NoCallFailed) =>
        LET desired == Desired
            current == Current
            adds == AddRequests
            removes == RemoveRequests
        IN  /\ Len(adds) = Len(users_to_add)
            /\ Len(removes) = Len(users_to_remove)
            /\ \A i \in 1..Len(requests) :
                  IsMutation(i) => Len(requests[i].users) = 1
            /\ desired = {} =>
                  /\ adds = <<>>
                  /\ Len(removes) = Len(cost_center_users)
                  /\ {q.users[1] : q \in Range(removes)} = current
            /\ current = {} =>
                  /\ removes = <<>>
                  /\ Len(adds) = Cardinality(desired)
                  /\ {q.users[1] : q \in Range(adds)} = desired

C4_Witness ==
    /\ pc = "done"
    /\ Reconciled
    /\ NoCallFailed
    /\ Len(AddRequests) = 2
    /\ Len(RemoveRequests) = 1

(***************************************************************************)
(* C5: on success the one output 'result' is "Added users: ", the          *)
(* elements of users_to_add separated by ", ", ", Removed users: " and    *)
(* the elements of users_to_remove separated by ", "; an empty list        *)
(* contributes the empty string.                                           *)
(***************************************************************************)
C5_ResultFormat ==
    (pc = "done" /\ setFailedCalls = <<>>) =>
        setOutputCalls =
            <<"Added users: " \o CommaList(users_to_add)
                \o ", Removed users: " \o CommaList(users_to_remove)>>

C5_Witness ==
    /\ pc = "done"
    /\ setFailedCalls = <<>>
    /\ Len(users_to_add) = 2
    /\ Len(users_to_remove) = 1
    /\ setOutputCalls # <<>>

(***************************************************************************)
(* C6: a run in which a step failed (input reading, cost-center lookup,    *)
(* membership fetch or mutation) has ended reporting that failure's        *)
(* message through setFailed, and its result output is not set.            *)
(***************************************************************************)
C6_AnyFailureFailsRun ==
    pc = "done" =>
        /\ MissingInput # "" =>
              /\ setFailedCalls = <<InputRequiredMessage(MissingInput)>>
              /\ setOutputCalls = <<>>
        /\ \A i \in 1..Len(requests) :
              ~responses[i].ok =>
                  /\ setFailedCalls = <<responses[i].message>>
                  /\ setOutputCalls = <<>>
        /\ (requests # <<>> /\ cost_center = NoCenter /\ responses[1].ok) =>
              /\ Len(setFailedCalls) = 1
              /\ setOutputCalls = <<>>

(***************************************************************************)
(* C7 as stated: the desired set used for reconciliation is the union of   *)
(* the direct members on the cost-center record and the members resolved   *)
(* from every linked organization.                                         *)
(***************************************************************************)
C7_DesiredIncludesDirect ==
    Reconciled => Range(github_users) = Current \cup Desired

(***************************************************************************)
(* C7 as amended: the desired set used for reconciliation is the union of  *)
(* the member lists returned by the membership fetches, one fetch per      *)
(* linked organization of the record; the direct members of the record     *)
(* are the current set and are not added to it.                            *)
(***************************************************************************)
C7_DesiredIsFetched ==
    Reconciled =>
        /\ Range(github_users) = Desired
        /\ [i \in 1..Len(FetchRequests) |-> FetchRequests[i].org] = LinkedOrgs
        /\ Range(cost_center_users) = Current

C7_Witness ==
    /\ Reconciled
    /\ Len(FetchRequests) = 2
    /\ \A i \in 1..Len(requests) : IsFetch(i) => Len(responses[i].members) = 1
    /\ Cardinality(Desired) = 2

(***************************************************************************)
(* C8: a run in which a membership fetch (team members or organization     *)
(* members) failed has ended as failed with that fetch error's message.    *)
(***************************************************************************)
C8_FetchFailureFailsRun ==
    pc = "done" =>
        \A i \in 1..Len(requests) :
            (IsFetch(i) /\ ~responses[i].ok) =>
                setFailedCalls = <<responses[i].message>>

LookupNotFound ==
    /\ pc = "done"
    /\ requests # <<>>
    /\ responses[1].ok
    /\ cost_center = NoCenter

(***************************************************************************)
(* C10 as stated: when no cost center has the requested name the run       *)
(* fails with an error whose message names the requested cost center and   *)
(* lists the names of the available cost centers.                          *)
(***************************************************************************)
C10_MessageListsAvailable ==
    LookupNotFound =>
        /\ Len(setFailedCalls) = 1
        /\ Contains(setFailedCalls[1], inputs.github_cost_center_name)
        /\ \A n \in Range(available) : Contains(setFailedCalls[1], n)

(***************************************************************************)
(* C10 as amended: when no cost center has the requested name the run      *)
(* fails with the message "Cost center with name <requested> not found";   *)
(* the names of the available cost centers are written to the error log,   *)
(* not to the failure message.                                             *)
(***************************************************************************)
C10_MessageNamesRequested ==
    LookupNotFound =>
        /\ Len(setFailedCalls) = 1
        /\ Contains(setFailedCalls[1], inputs.github_cost_center_name)
        /\ setFailedCalls[1] =
              "Cost center with name " \o inputs.github_cost_center_name
                  \o " not found"
        /\ setOutputCalls = <<>>
        /\ Len(requests) = 1
        /\ console_error # <<>>
        /\ \A n \in Range(available) : Contains(console_error[1], n)

C10_Witness ==
    /\ LookupNotFound
    /\ Len(available) = 2
    /\ available[1] # available[2]

(***************************************************************************)
(* C11: the members fetched from the linked organizations are merged into  *)
(* one collection that holds each login exactly once, however many         *)
(* organizations return it: all_users, and the list run() reconciles       *)
(* with, is duplicate-free and as a set is the union of the member lists   *)
(* of the fetches that succeeded.                                          *)
(***************************************************************************)
C11_MergedOnce ==
    LET desired == Desired
    IN  /\ NoDup(all_users)
        /\ Range(all_users) = desired
        /\ Len(all_users) = Cardinality(desired)
        /\ Reconciled =>
              /\ NoDup(github_users)
              /\ Len(github_users) = Cardinality(desired)
              /\ \A u \in desired :
                    Cardinality({i \in 1..Len(github_users) :
                                    github_users[i] = u}) = 1

C11_Witness ==
    /\ Reconciled
    /\ Cardinality(Desired) = 2
    /\ \E i, j \in 1..Len(requests) :
          /\ i < j
          /\ IsFetch(i) /\ responses[i].ok
          /\ IsFetch(j) /\ responses[j].ok
          /\ Range(responses[i].members) \cap Range(responses[j].members) # {}

(***************************************************************************)
(* C12: getCostCenter partitions the resources of the record it found by   *)
(* type: the names of the 'Org' resources, in record order, are the        *)
(* linked organizations, the names of the 'User' resources the current     *)
(* direct members; a resource of another type is in neither list and       *)
(* causes no failure (nothing is logged as an error, and the run fails     *)
(* only when a mutation request was rejected).                             *)
(***************************************************************************)
C12_PartitionByType ==
    cost_center # NoCenter =>
        LET res == cost_center.resources
            orgIdx == {i \in 1..Len(res) : res[i].type = "Org"}
            userIdx == {i \in 1..Len(res) : res[i].type = "User"}
        IN  /\ cost_center_orgs =
                  Names(SelectSeq(res, LAMBDA r : r.type = "Org"))
            /\ cost_center_users =
                  Names(SelectSeq(res, LAMBDA r : r.type = "User"))
            /\ Len(cost_center_orgs) = Cardinality(orgIdx)
            /\ Len(cost_center_users) = Cardinality(userIdx)
            /\ Len(cost_center_orgs) + Len(cost_center_users)
                  = Len(res) - Cardinality((1..Len(res)) \ (orgIdx \cup userIdx))
            /\ console_error = <<>>
            /\ setFailedCalls # <<>> =>
                  \E i \in 1..Len(requests) : IsMutation(i) /\ ~responses[i].ok

C12_Witness ==
    /\ pc = "done"
    /\ setOutputCalls # <<>>
    /\ \E i, j \in 1..Len(cost_center.resources) :
          /\ cost_center.resources[i].type = "Repo"
          /\ cost_center.resources[j].type \in {"Org", "User"}
    /\ Len(cost_center_orgs) + Len(cost_center_users) = 1

(***************************************************************************)
(* C13: github_organization is a required input: a finished run that was   *)
(* not given it has failed with the message                                *)
(* "Input required and not supplied: github_organization".  It is stated   *)
(* for the runs in which nothing else goes wrong: every other required     *)
(* input is given, the cost center is found and no remote call is          *)
(* rejected.                                                               *)
(***************************************************************************)
C13_OrganizationRequired ==
    (/\ pc = "done"
     /\ inputs.github_organization = ""
     /\ inputs.github_cost_center_name # ""
     /\ inputs.github_enterprise # ""
     /\ inputs.github_token # ""
     /\ cost_center # NoCenter
     /\ NoCallFailed) =>
        setFailedCalls =
            <<"Input required and not supplied: github_organization">>

(***************************************************************************)
(* C14: when github_cost_center_name, github_enterprise or github_token    *)
(* is absent, the run fails with the input error's message, which names    *)
(* the first absent input in reading order, and issues no remote request   *)
(* (no lookup, no fetch, no mutation) and sets no result.                  *)
(***************************************************************************)
C14_MissingInputNoRequest ==
    LET absent ==
            IF inputs.github_cost_center_name = ""
            THEN "github_cost_center_name"
            ELSE IF inputs.github_enterprise = "" THEN "github_enterprise"
            ELSE IF inputs.github_token = "" THEN "github_token"
            ELSE ""
    IN  (absent # "" /\ pc # "start") =>
            /\ pc = "done"
            /\ setFailedCalls =
                  <<"Input required and not supplied: " \o absent>>
            /\ requests = <<>>
            /\ responses = <<>>
            /\ setOutputCalls = <<>>

C14_Witness ==
    /\ pc = "done"
    /\ inputs.github_cost_center_name # ""
    /\ inputs.github_enterprise # ""
    /\ inputs.github_token = ""
    /\ setFailedCalls = <<"Input required and not supplied: github_token">>

\* the direct members the remote store holds for the cost center
Stored == {r.name : r \in {x \in Range(store) : x.type = "User"}}

(***************************************************************************)
(* C15: against a store that applies each add and remove request, with     *)
(* the organizations answering the same in every run and no call failing,  *)
(* a finished run leaves the cost center's direct users equal to the       *)
(* desired set, and the run that follows it computes nothing to add or to  *)
(* remove, issues no add and no remove request and reports an empty        *)
(* result.                                                                 *)
(***************************************************************************)
C15_SecondRunIdle ==
    LET desired == Desired
    IN  /\ (pc = "done" /\ Reconciled /\ NoCallFailed) => Stored = desired
        /\ (run > 1 /\ NoCallFailed) =>
              /\ AddRequests = <<>>
              /\ RemoveRequests = <<>>
              /\ Reconciled =>
                    /\ users_to_add = <<>>
                    /\ users_to_remove = <<>>
                    /\ Current = desired
              /\ pc = "done" =>
                    setOutputCalls = <<"Added users: , Removed users: ">>

C15_Witness ==
    /\ run = 2
    /\ pc = "done"
    /\ NoCallFailed
    /\ prev.added # <<>>
    /\ prev.removed # <<>>
    /\ Stored = Desired
    /\ AddRequests = <<>>
    /\ RemoveRequests = <<>>

(***************************************************************************)
(* C16: a failed run makes no partial update: when the run has ended with  *)
(* setFailed, the cost center's resources in the store are the ones the    *)
(* record showed when the run looked it up.  It is stated for the records  *)
(* that list every resource once.                                          *)
(***************************************************************************)
C16_NoPartialUpdate ==
    (pc = "done" /\ setFailedCalls # <<>> /\ NoDup(cost_center.resources)) =>
        store = cost_center.resources

(***************************************************************************)
(* C17: with a non-empty github_team every membership fetch asks for the   *)
(* members of that team (listMembersInOrg with that team slug) and         *)
(* listMembers is never called; with an empty github_team every fetch is   *)
(* listMembers and listMembersInOrg is never called; in both cases a       *)
(* reconciled run has issued exactly one fetch per linked organization.    *)
(***************************************************************************)
C17_FetchKindByTeam ==
    /\ \A i \in 1..Len(requests) :
          IsFetch(i) =>
              IF inputs.github_team # ""
              THEN /\ requests[i].kind = "listMembersInOrg"
                   /\ requests[i].team_slug = inputs.github_team
              ELSE requests[i].kind = "listMembers"
    /\ Reconciled =>
          LET linked == LinkedOrgs
          IN  /\ Len(FetchRequests) = Len(linked)
              /\ \A o \in Range(linked) :
                    Cardinality({i \in 1..Len(requests) :
                                    IsFetch(i) /\ requests[i].org = o})
                        = Cardinality({k \in 1..Len(linked) : linked[k] = o})

C17_Witness ==
    /\ Reconciled
    /\ inputs.github_team = "dev"
    /\ Len(LinkedOrgs) = 2
    /\ \A q \in Range(FetchRequests) :
          q.kind = "listMembersInOrg" /\ q.team_slug = "dev"
    /\ Len(FetchRequests) = 2

InOrder ==
    LET linked == LinkedOrgs
        fetches == FetchRequests
    IN  /\ \A i \in 1..Len(requests) :
              requests[i].kind = "listCostCenters" <=> i = 1
        /\ Len(fetches) <= Len(linked)
        /\ \A k \in 1..Len(fetches) : fetches[k].org = linked[k]
        /\ \A i, j \in 1..Len(requests) :
              (IsMutation(i) /\ IsFetch(j)) => j < i
        /\ (\E i \in 1..Len(requests) : IsMutation(i)) =>
              Len(fetches) = Len(linked)

(***************************************************************************)
(* C19: at most one remote request is outstanding at any time, and the     *)
(* requests are issued in the order: the cost-center listing, one          *)
(* membership fetch per linked organization in the order of the 'Org'      *)
(* resources of the record, then the mutation requests.  Every call of     *)
(* run() is awaited, so a step issues a request and takes its outcome:     *)
(* no step issues more than one request, after every step each request     *)
(* issued has its outcome, and the requests issued are in that order.      *)
(***************************************************************************)
C19_OneAtATimeInOrder ==
    [][/\ Len(requests') <= Len(requests) + 1
       /\ Len(responses') = Len(requests')
       /\ InOrder']_vars

C19_Witness ==
    /\ pc = "done"
    /\ Len(LinkedOrgs) = 2
    /\ Len(FetchRequests) = 2
    /\ Len(AddRequests) = 2
    /\ requests[1].kind = "listCostCenters"
    /\ Len(requests) = 5

(***************************************************************************)
(* C20: every add request of a run is issued before any remove request of  *)
(* that run; so when a remove request has been issued, in particular one   *)
(* that fails, every member of users_to_add has been added: each has its   *)
(* own successful add request and is a direct member in the store.         *)
(***************************************************************************)
C20_AddsBeforeRemoves ==
    /\ \A i, j \in 1..Len(requests) : (IsAdd(i) /\ IsRemove(j)) => i < j
    /\ (\E j \in 1..Len(requests) : IsRemove(j)) =>
          /\ OnlyUsers(AddRequests) = users_to_add
          /\ \A i \in 1..Len(requests) : IsAdd(i) => responses[i].ok
          /\ Range(users_to_add) \subseteq
                {r.name : r \in {x \in Range(store) : x.type = "User"}}

C20_Witness ==
    /\ pc = "done"
    /\ setFailedCalls # <<>>
    /\ Len(users_to_add) = 2
    /\ Len(AddRequests) = 2
    /\ IsRemove(Len(requests))
    /\ ~responses[Len(requests)].ok

\* the member lists of the fetches that succeeded, one after the other in the
\* order of the requests
Fetched ==
    LET acc[i \in 0..Len(requests)] ==
            IF i = 0 THEN <<>>
            ELSE IF IsFetch(i) /\ responses[i].ok
            THEN acc[i - 1] \o responses[i].members
            ELSE acc[i - 1]
    IN  acc[Len(requests)]

\* the elements of s in the order of their first occurrence
FirstSeen(s) ==
    LET keep == {i \in 1..Len(s) : \A j \in 1..(i - 1) : s[j] # s[i]}
        nth(k) == CHOOSE i \in keep : Cardinality({j \in keep : j < i}) = k - 1
    IN  [k \in 1..Cardinality(keep) |-> s[nth(k)]]

(***************************************************************************)
(* C21: users_to_add lists the members to add in the order of their first  *)
(* occurrence across the source responses taken in linked-organization     *)
(* order, users_to_remove lists the members to remove in the order of the  *)
(* 'User' resources of the record; the add requests, the remove requests   *)
(* and the two lists of the result string follow these orders.             *)
(***************************************************************************)
C21_OrderPreserved ==
    Reconciled =>
        LET desired == Desired
            current == Current
            recorded == Names(SelectSeq(cost_center.resources,
                                        LAMBDA r : r.type = "User"))
            adds == AddRequests
            removes == RemoveRequests
        IN  /\ users_to_add =
                  SelectSeq(FirstSeen(Fetched), LAMBDA u : u \notin current)
            /\ users_to_remove =
                  SelectSeq(recorded, LAMBDA u : u \notin desired)
            /\ Len(adds) <= Len(users_to_add)
            /\ OnlyUsers(adds) = SubSeq(users_to_add, 1, Len(adds))
            /\ Len(removes) <= Len(users_to_remove)
            /\ OnlyUsers(removes) = SubSeq(users_to_remove, 1, Len(removes))
            /\ setOutputCalls # <<>> =>
                  /\ OnlyUsers(adds) = users_to_add
                  /\ OnlyUsers(removes) = users_to_remove
                  /\ setOutputCalls[1] =
                        "Added users: " \o CommaList(OnlyUsers(adds))
                            \o ", Removed users: "
                            \o CommaList(OnlyUsers(removes))

C21_Witness ==
    /\ pc = "done"
    /\ users_to_add = <<"b", "a">>
    /\ users_to_remove = <<"c">>
    /\ setOutputCalls = <<"Added users: b, a, Removed users: c">>

(***************************************************************************)
(* C22: no remote call is retried.  A failed listing or mutation request   *)
(* is the last request of its run; a failed membership fetch is followed   *)
(* by the fetch of the next entry of the record only, so the requests of   *)
(* a run never outnumber one listing, one fetch per 'Org' entry and one    *)
(* mutation per user to add or remove, and when the record names every     *)
(* organization once no request equal to a failed one is issued after it.  *)
(***************************************************************************)
C22_NoRetry ==
    /\ Len(requests) <= 1 + Len(cost_center_orgs) + Len(users_to_add)
                           + Len(users_to_remove)
    /\ Len(FetchRequests) <= Len(cost_center_orgs)
    /\ \A i \in 1..Len(requests) :
          ~responses[i].ok =>
              /\ ~IsFetch(i) => i = Len(requests)
              /\ IsFetch(i) => requests[i].org = cost_center_orgs[i - 1]
              /\ NoDup(cost_center_orgs) =>
                    \A j \in (i + 1)..Len(requests) : requests[j] # requests[i]

C22_Witness ==
    /\ pc = "done"
    /\ NoDup(cost_center_orgs)
    /\ \E i \in 1..Len(requests) :
          /\ IsFetch(i)
          /\ ~responses[i].ok
          /\ i + 2 <= Len(requests)
          /\ IsFetch(i + 1)
          /\ IsMutation(i + 2)

(***************************************************************************)
(* C23: the cost center that is reconciled is one whose name is exactly    *)
(* the github_cost_center_name input, compared case-sensitively and as     *)
(* given; every mutation request of the run carries that cost center's     *)
(* id; and when the listing holds no such name, whatever names it holds    *)
(* (one differing only in case among them), no cost center is selected.    *)
(***************************************************************************)
C23_ExactNameMatch ==
    /\ cost_center # NoCenter =>
          /\ cost_center.name = inputs.github_cost_center_name
          /\ cost_center_id = cost_center.id
          /\ \A i \in 1..Len(requests) :
                IsMutation(i) => requests[i].cost_center_id = cost_center.id
    /\ cost_center = NoCenter =>
          \A i \in 1..Len(requests) : ~IsMutation(i)
    /\ available # <<>> =>
          /\ \A i \in 1..Len(available) :
                available[i] # inputs.github_cost_center_name
          /\ cost_center = NoCenter

C23_Witness ==
    /\ pc = "done"
    /\ cost_center.name = "cc"
    /\ inputs.github_cost_center_name = "cc"
    /\ \E i, j \in 1..Len(requests) :
          /\ IsAdd(i) /\ requests[i].cost_center_id = "id-cc"
          /\ IsRemove(j) /\ requests[j].cost_center_id = "id-cc"

(***************************************************************************)
(* C24: every run ends having called exactly one of setOutput('result',    *)
(* ...) and setFailed(...), and that one exactly once: a run that is over  *)
(* has made one such call, a run that is not over has made none and has a  *)
(* next step to take.                                                      *)
(***************************************************************************)
C24_OneOutcome ==
    /\ pc = "done" => Len(setOutputCalls) + Len(setFailedCalls) = 1
    /\ pc # "done" =>
          /\ setOutputCalls = <<>>
          /\ setFailedCalls = <<>>
          /\ ENABLED Next

C24_Witness ==
    /\ pc = "done"
    /\ setOutputCalls = <<>>
    /\ Len(setFailedCalls) = 1
    /\ \E i \in 1..Len(requests) : IsRemove(i) /\ ~responses[i].ok
    /\ \E i \in 1..Len(requests) : IsAdd(i)

\* the users who are in fact members of an organization the run has fetched
ActualMembers == UNION {Range(actual[k]) : k \in 1..Len(actual)}

(***************************************************************************)
(* C25: a run never issues a remove request for a user who is in fact a    *)
(* member of one of the cost center's linked organizations (of the         *)
(* configured team in it), whether or not a membership fetch failed.       *)
(***************************************************************************)
C25_MembersNotRemoved ==
    \A i \in 1..Len(requests) :
        IsRemove(i) => requests[i].users[1] \notin ActualMembers

(***************************************************************************)
(* C26: within one run each member receives at most one mutation request:  *)
(* no user is added twice or removed twice, whatever the cost-center       *)
(* record (one listing the same 'User' name twice included) and whatever   *)
(* the source responses.                                                   *)
(***************************************************************************)
C26_OneMutationPerMember ==
    \A i, j \in 1..Len(requests) :
        (i < j /\ IsMutation(i) /\ IsMutation(j)) =>
            requests[i].users[1] # requests[j].users[1]

\* the lookup of the run is over and has given no cost center
LookupFailed ==
    /\ requests # <<>>
    /\ \/ ~responses[1].ok
       \/ available # <<>>
       \/ cost_center = NoCenter

(***************************************************************************)
(* C27: if the cost-center lookup fails (the listing request is rejected   *)
(* or no listed cost center has the requested name), the run issues no     *)
(* membership fetch and no add or remove request: the listing is its only  *)
(* request and it ends failed.                                             *)
(***************************************************************************)
C27_LookupFailureStops ==
    LookupFailed =>
        /\ Len(requests) = 1
        /\ requests[1].kind = "listCostCenters"
        /\ all_users = <<>>
        /\ users_to_add = <<>>
        /\ users_to_remove = <<>>
        /\ pc = "done"
        /\ Len(setFailedCalls) = 1
        /\ setOutputCalls = <<>>

C27_Witness ==
    /\ pc = "done"
    /\ LookupFailed
    /\ responses[1].ok
    /\ Len(available) = 2
    /\ setFailedCalls = <<"Cost center with name cc not found">>

(***************************************************************************)
(* Claims about the mock cost-center server.                               *)
(***************************************************************************)
\* the logins of the users a cost center holds
Logins(users) == [i \in 1..Len(users) |-> users[i].login]

IsPost(e, name, username) ==
    e.op = "POST user" /\ e.name = name /\ e.username = username

(***************************************************************************)
(* C28: POST /reset restores the three initial cost centers with their     *)
(* initial users, removes every other cost center and sets the response    *)
(* mode back to 'success' and the delay to 100, from whatever state and    *)
(* response mode it is sent in: every step that answers a reset ends in    *)
(* that state, and the answer is 200.                                      *)
(***************************************************************************)
C28_ResetRestores ==
    [][(Len(log') = Len(log) + 1 /\ log'[Len(log')].op = "reset") =>
          /\ DOMAIN costCenters' = {"engineering-cost-center",
                                    "org-wide-cost-center",
                                    "design-cost-center"}
          /\ Logins(costCenters'["engineering-cost-center"])
                = <<"user2", "user3">>
          /\ Logins(costCenters'["org-wide-cost-center"])
                = <<"user1", "user4">>
          /\ Logins(costCenters'["design-cost-center"])
                = <<"designer1", "designer2">>
          /\ costCenters' = InitialCostCenters
          /\ responseMode' = "success"
          /\ artificialDelay' = 100
          /\ log'[Len(log')].status = 200]_vars

C28_Witness ==
    /\ log # <<>>
    /\ log[Len(log)].op = "reset"
    /\ log[Len(log)].mode = "error"
    /\ log[Len(log)].changed
    /\ \E k \in 1..Len(log) :
          IsPost(log[k], "new-cost-center", "user2") /\ log[k].status = 201
    /\ costCenters = InitialCostCenters
    /\ responseMode = "success"

(***************************************************************************)
(* C29: while the response mode is 'error' or 'timeout' no cost-center     *)
(* request changes the stored cost centers or their users: no answer to a  *)
(* POST or DELETE of a user that is given in one of these two modes comes  *)
(* with a change of the store.                                             *)
(***************************************************************************)
C29_NoChangeInErrorModes ==
    \A k \in 1..Len(log) :
        (log[k].op \in {"POST user", "DELETE user"}
            /\ log[k].mode \in {"error", "timeout"}) => ~log[k].changed

====
